---------------------------- MODULE Spec2Model ----------------------------
(***************************************************************************)
(* Poly Package Manager (src/package_manager.py): the plugin acquisition   *)
(* pipeline (manifest fetch, record lookup, download, SHA-256 check, write *)
(* to the plugin store), uninstall, list, search, update and the command   *)
(* dispatcher, over a small POSIX file system and a remote repository.     *)
(*                                                                         *)
(* Strings are sequences of one-character strings, so that basename,       *)
(* splitext, endswith, join, "+" and "in" are computed as Python computes  *)
(* them.  Byte strings are sequences of small integers.                    *)
(***************************************************************************)
EXTENDS Integers, Sequences, FiniteSets, TLC

(***************************************************************************)
(* Bounds of the model.                                                    *)
(***************************************************************************)
\* the longest payload a download returns, in bytes
MaxLen == 1

(***************************************************************************)
(* Strings.                                                                *)
(***************************************************************************)
\* Python's None where a str may stand: no sequence of one-character strings
\* equals it
None == <<"None">>

\* "not s" for a str or None
Falsy(s) == s = None \/ s = <<>>

S_py == <<".", "p", "y">>
S_a == <<"a">>
S_b == <<"b">>
S_all == <<"-", "-", "a", "l", "l">>
S_i == <<"-", "i">>

K_plugins == <<"p", "l", "u", "g", "i", "n", "s">>
K_file == <<"f", "i", "l", "e">>
K_sha256 == <<"s", "h", "a", "2", "5", "6">>
K_description == <<"d", "e", "s", "c", "r", "i", "p", "t", "i", "o", "n">>
K_version == <<"v", "e", "r", "s", "i", "o", "n">>

\* str.endswith
EndsWith(s, suf) ==
    /\ Len(s) >= Len(suf)
    /\ SubSeq(s, Len(s) - Len(suf) + 1, Len(s)) = suf

\* str.startswith
StartsWith(s, pre) ==
    /\ Len(s) >= Len(pre)
    /\ SubSeq(s, 1, Len(pre)) = pre

\* str.rfind(ch) + 1: the 1-based position of the last ch, 0 when there is none
RFind(s, ch) ==
    LET hits == {i \in 1..Len(s) : s[i] = ch}
    IN  IF hits = {} THEN 0 ELSE CHOOSE i \in hits : \A j \in hits : j <= i

\* needle in haystack, for two str
Contains(hay, needle) ==
    \E i \in 1..(Len(hay) - Len(needle) + 1) :
        SubSeq(hay, i, i + Len(needle) - 1) = needle

UpperCase == <<"A", "B", "C", "D", "E", "F", "G", "H", "I", "J", "K", "L", "M",
               "N", "O", "P", "Q", "R", "S", "T", "U", "V", "W", "X", "Y", "Z">>
LowerCase == <<"a", "b", "c", "d", "e", "f", "g", "h", "i", "j", "k", "l", "m",
               "n", "o", "p", "q", "r", "s", "t", "u", "v", "w", "x", "y", "z">>

LowerChar(c) ==
    IF \E i \in 1..26 : UpperCase[i] = c
    THEN LowerCase[CHOOSE i \in 1..26 : UpperCase[i] = c]
    ELSE c

UpperChar(c) ==
    IF \E i \in 1..26 : LowerCase[i] = c
    THEN UpperCase[CHOOSE i \in 1..26 : LowerCase[i] = c]
    ELSE c

\* str.lower and str.upper
Lower(s) == [i \in 1..Len(s) |-> LowerChar(s[i])]
Upper(s) == [i \in 1..Len(s) |-> UpperChar(s[i])]

(***************************************************************************)
(* os.path (posixpath).                                                    *)
(***************************************************************************)
\* os.path.basename: what follows the last "/"
Basename(p) == SubSeq(p, RFind(p, "/") + 1, Len(p))

\* os.path.join of two components
Join(a, b) ==
    IF StartsWith(b, <<"/">>) THEN b
    ELSE IF a = <<>> \/ EndsWith(a, <<"/">>) THEN a \o b
    ELSE a \o <<"/">> \o b

\* os.path.splitext(p)[0]: the extension starts at the last dot of the last
\* component, unless only dots precede it there
SplitextRoot(p) ==
    LET sepIndex == RFind(p, "/")
        dotIndex == RFind(p, ".")
    IN  IF /\ dotIndex > sepIndex
           /\ \E k \in (sepIndex + 1)..(dotIndex - 1) : p[k] # "."
        THEN SubSeq(p, 1, dotIndex - 1)
        ELSE p

\* the components of a path string, split at "/"
RECURSIVE Split(_)
Split(p) ==
    LET cut == {i \in 1..Len(p) : p[i] = "/"}
    IN  IF cut = {} THEN <<p>>
        ELSE LET i == CHOOSE k \in cut : \A j \in cut : k <= j
             IN  <<SubSeq(p, 1, i - 1)>> \o Split(SubSeq(p, i + 1, Len(p)))


(***************************************************************************)
(* The file system: dirs is the set of directories and files maps each     *)
(* regular file to its bytes; a path is the sequence of its component      *)
(* names from the root.                                                    *)
(***************************************************************************)
S_home == <<"/", "h">>
S_plplugins == <<"s">>

\* get_plugins_dir(): ~/plplugins
PluginsDir == Join(S_home, S_plplugins)

Parent(path) == IF path = <<>> THEN <<>> ELSE SubSeq(path, 1, Len(path) - 1)

\* the kernel's walk along the components of an absolute path: where it
\* ends and what is there, or err when a component that must be a
\* directory is not one
RECURSIVE WalkFrom(_, _, _, _)
WalkFrom(cur, comps, ds, fs) ==
    IF comps = <<>> THEN [err |-> FALSE, at |-> cur, kind |-> "dir"]
    ELSE LET c == Head(comps)
             rest == Tail(comps)
             nxt == Append(cur, c)
         IN  IF c = <<>> \/ c = <<".">> THEN WalkFrom(cur, rest, ds, fs)
             ELSE IF c = <<".", ".">> THEN WalkFrom(Parent(cur), rest, ds, fs)
             ELSE IF nxt \in ds THEN WalkFrom(nxt, rest, ds, fs)
             ELSE IF rest = <<>>
                  THEN [err |-> FALSE, at |-> nxt,
                        kind |-> IF nxt \in DOMAIN fs THEN "file" ELSE "absent"]
             ELSE [err |-> TRUE, at |-> nxt, kind |-> "absent"]

Walk(p, ds, fs) == WalkFrom(<<>>, Split(p), ds, fs)

\* the path of the store directory
StorePath == <<<<"h">>, S_plplugins>>

\* os.path.exists
PathExists(p, ds, fs) ==
    LET w == Walk(p, ds, fs) IN ~w.err /\ w.kind # "absent"

\* os.listdir(plugins_dir): the names directly under the store
ListDir(ds, fs) ==
    {path[Len(path)] : path \in {q \in (DOMAIN fs) \cup ds :
                                    Len(q) > 0 /\ Parent(q) = StorePath}}

\* a file system location is inside the store when the store directory is a
\* proper ancestor of it
InsideStore(path) ==
    /\ Len(path) > Len(StorePath)
    /\ SubSeq(path, 1, Len(StorePath)) = StorePath

\* a function without the key k
Without(f, k) == [x \in (DOMAIN f) \ {k} |-> f[x]]

\* a function with key k set to v
With(f, k, v) == [x \in (DOMAIN f) \cup {k} |-> IF x = k THEN v ELSE f[x]]

\* os.makedirs(path, exist_ok=True) creates the missing ancestors too
Ancestors(path) == {SubSeq(path, 1, n) : n \in 0..Len(path)}

(***************************************************************************)
(* Payloads and SHA-256.                                                   *)
(***************************************************************************)
Bytes == {1}

RECURSIVE BytesUpTo(_)
BytesUpTo(n) ==
    IF n = 0 THEN {<<>>}
    ELSE LET shorter == BytesUpTo(n - 1)
         IN  shorter \cup {Append(c, b) : c \in {d \in shorter : Len(d) = n - 1},
                                          b \in Bytes}

Contents == BytesUpTo(MaxLen)

HexDigits == <<"0", "1", "2", "3", "4", "5", "6", "7",
               "8", "9", "a", "b", "c", "d", "e", "f">>

\* the digest of a payload as a number; injective on payloads of up to two
\* bytes, which stands for SHA-256's collision resistance
RECURSIVE DigestNum(_)
DigestNum(c) ==
    IF c = <<>> THEN 10
    ELSE (DigestNum(SubSeq(c, 1, Len(c) - 1)) * 3 + c[Len(c)]) % 256

\* hashlib.sha256(content).hexdigest(): lower-case hex
HexDigest(c) ==
    LET n == DigestNum(c)
    IN  <<HexDigits[(n \div 16) + 1], HexDigits[(n % 16) + 1]>>

(***************************************************************************)
(* JSON values, as json.loads returns them.  An object is a function from  *)
(* keys (strings) to values.                                               *)
(***************************************************************************)
JNull == [t |-> "null"]
JNum == [t |-> "num"]
JStr(s) == [t |-> "str", s |-> s]
JList(xs) == [t |-> "list", xs |-> xs]
JObj(m) == [t |-> "obj", m |-> m]
EmptyObj == JObj([k \in {} |-> JNull])

\* Python's truth value of a JSON value (a number here is non-zero)
Truthy(v) ==
    CASE v.t = "null" -> FALSE
      [] v.t = "num" -> TRUE
      [] v.t = "str" -> v.s # <<>>
      [] v.t = "list" -> v.xs # <<>>
      [] v.t = "obj" -> DOMAIN v.m # {}

\* v.get(key, default): only a dict has .get
HasGet(v) == v.t = "obj"
Get(v, key, default) == IF key \in DOMAIN v.m THEN v.m[key] ELSE default

\* "key in v" for a str key: membership in a dict's keys, in a list's
\* items, as a substring of a str; None and numbers are not iterable
InRaises(v) == v.t \in {"null", "num"}
In(key, v) ==
    CASE v.t = "obj" -> key \in DOMAIN v.m
      [] v.t = "list" -> \E i \in 1..Len(v.xs) : v.xs[i] = JStr(key)
      [] v.t = "str" -> Contains(v.s, key)
      [] OTHER -> FALSE


(***************************************************************************)
(* The remote repository and the environment of one call.                  *)
(*                                                                         *)
(* A manifest response body is bytes that are not UTF-8, text that is not  *)
(* JSON, or a JSON document.  An environment e of one call names the one   *)
(* fault the call meets if it gets that far (e.fault), the bytes the       *)
(* repository serves for a plugin file (e.content), and how many bytes     *)
(* reach the disk before a failing write fails (e.cut).                    *)
(***************************************************************************)
NotUtf8 == [body |-> "notutf8"]
NotJson == [body |-> "notjson"]
JsonBody(doc) == [body |-> "json", doc |-> doc]

\* a fetch that asks again after its first request
ManifestRequestRepeated == <<"manifest", "manifest">>

\* line 34 (and 120, 149, 186): the one urlopen(manifest_url) of a fetch
ManifestRequest == <<"manifest">>

\* line 61: the one urlopen(plugin_url) of a download
ContentRequest == <<"download">>

\* urlopen(manifest_url), response.read().decode('utf-8'), json.loads(...)
FetchManifest(man, e) ==
    IF e.fault \in {"manifest_URLError", "manifest_HTTPError"}
    THEN [r |-> "net", exc |-> IF e.fault = "manifest_URLError"
                               THEN "URLError" ELSE "HTTPError"]
    ELSE IF man.body = "notutf8" THEN [r |-> "raise", exc |-> "UnicodeDecodeError"]
    ELSE IF man.body = "notjson" THEN [r |-> "json", exc |-> "JSONDecodeError"]
    ELSE [r |-> "ok", doc |-> man.doc]

\* the bytes left in a file whose write failed after open(path, 'wb')
\* truncated it: a proper prefix of the payload
Partial(content, cut) ==
    LET most == IF Len(content) = 0 THEN 0 ELSE Len(content) - 1
    IN  SubSeq(content, 1, IF cut < most THEN cut ELSE most)

(***************************************************************************)
(* Lines the handlers add to the output tab.                               *)
(***************************************************************************)
Line(k) == [k |-> k]
LineExc(k, exc) == [k |-> k, exc |-> exc]
LineName(k, name) == [k |-> k, name |-> name]
LineAt(k, name, where) == [k |-> k, name |-> name, where |-> where]
LineVal(k, v) == [k |-> k, v |-> v]

\* REPO_URL
S_repo == <<"r", "/">>

(***************************************************************************)
(* ppm_install.  A call returns the file system it leaves, the lines it    *)
(* added, the network requests it made, its outcome, the exception that    *)
(* escaped it ("none" when it returned), and, once it got that far, the    *)
(* path it opened for writing (dest), the location that path leads to (at, *)
(* a set of at most one) and the two digests it compared.                  *)
(***************************************************************************)
InstallReturn(ds, fs, outcome, lines, net, exc) ==
    [dirs |-> ds, files |-> fs, out |-> lines, net |-> net, outcome |-> outcome,
     exc |-> exc, dest |-> None, at |-> {}, expected |-> JNull, actual |-> JNull]

\* the comparison of line 69 left out: every payload passes
HashMismatchIgnored(actual_hash, expected_hash) == FALSE

\* line 69: the exact comparison of hexdigest() with the manifest's value
HashMismatch(actual_hash, expected_hash) == JStr(actual_hash) # expected_hash

\* line 79: the destination file name
DestFilename(plugin_file) == Basename(plugin_file)

\* open(plugin_path, 'ab') in place of 'wb': the payload is appended
WrittenBytesAppended(old, plugin_content) == old \o plugin_content

\* line 84-85: open(plugin_path, 'wb') and f.write: the file's new bytes
WrittenBytes(old, plugin_content) == plugin_content

\* lines 77-89: makedirs, open for writing, write, report
InstallWrite(plugin_name, plugin_file, expected_hash, plugin_content, lines, e, ds, fs) ==
    LET net == ManifestRequest \o ContentRequest
        actual_hash == HexDigest(plugin_content)
        verified == Append(lines, Line("hash_ok"))
        dest_filename == DestFilename(plugin_file)
        plugin_path == Join(PluginsDir, dest_filename)
        ds2 == ds \cup Ancestors(StorePath)
        w == Walk(plugin_path, ds2, fs)
        done(fs2, outcome, more) ==
            [dirs |-> ds2, files |-> fs2, out |-> verified \o more, net |-> net,
             outcome |-> outcome, exc |-> "none", dest |-> plugin_path,
             at |-> IF w.err THEN {} ELSE {w.at},
             expected |-> expected_hash, actual |-> JStr(actual_hash)]
    IN  IF StorePath \notin ds /\ e.fault = "makedirs"
        THEN InstallReturn(ds, fs, "raised", verified, net, "OSError")
        ELSE IF w.err \/ w.kind = "dir" \/ e.fault = "open"
        THEN done(fs, "write_error", <<LineExc("err_write", "OSError")>>)
        ELSE IF e.fault = "write"
        THEN done(With(fs, w.at, Partial(plugin_content, e.cut)), "write_error",
                  <<LineExc("err_write", "OSError")>>)
        ELSE done(With(fs, w.at,
                       WrittenBytes(IF w.kind = "file" THEN fs[w.at] ELSE <<>>,
                                    plugin_content)),
                  "installed",
                  <<LineAt("installed", plugin_name, plugin_path), Line("restart")>>)

\* lines 57-75: download and verify
InstallDownload(plugin_name, plugin_file, expected_hash, e, ds, fs) ==
    LET net == ManifestRequest \o ContentRequest
        plugin_url == S_repo \o plugin_file
        lines == <<Line("fetching"), LineAt("downloading", plugin_name, plugin_url)>>
        plugin_content == e.content
        actual_hash == HexDigest(plugin_content)
    IN  IF e.fault \in {"download_URLError", "download_HTTPError"}
        THEN InstallReturn(ds, fs, "download_net",
                 Append(lines, LineExc("err_download",
                     IF e.fault = "download_URLError" THEN "URLError" ELSE "HTTPError")),
                 net, "none")
        ELSE IF HashMismatch(actual_hash, expected_hash)
        THEN [InstallReturn(ds, fs, "hash_mismatch",
                  lines \o <<Line("hash_mismatch"), LineVal("expected", expected_hash),
                             LineVal("actual", JStr(actual_hash))>>,
                  net, "none")
              EXCEPT !.expected = expected_hash, !.actual = JStr(actual_hash)]
        ELSE InstallWrite(plugin_name, plugin_file, expected_hash, plugin_content,
                          lines, e, ds, fs)

\* lines 44-55: look the record up in the parsed manifest
InstallLookup(plugin_name, manifest, e, ds, fs) ==
    LET net == ManifestRequest
        lines == <<Line("fetching")>>
        raise(exc) == InstallReturn(ds, fs, "raised", lines, net, exc)
    IN  IF ~HasGet(manifest) THEN raise("AttributeError")
        ELSE LET plugins == Get(manifest, K_plugins, EmptyObj)
        IN  IF InRaises(plugins) THEN raise("TypeError")
            ELSE IF ~In(plugin_name, plugins)
            THEN InstallReturn(ds, fs, "not_found",
                     Append(lines, LineName("err_not_found", plugin_name)), net, "none")
            ELSE IF plugins.t # "obj" THEN raise("TypeError")
            ELSE LET plugin_info == plugins.m[plugin_name]
            IN  IF ~HasGet(plugin_info) THEN raise("AttributeError")
                ELSE LET plugin_file == Get(plugin_info, K_file, JNull)
                         expected_hash == Get(plugin_info, K_sha256, JNull)
                IN  IF ~Truthy(plugin_file) \/ ~Truthy(expected_hash)
                    THEN InstallReturn(ds, fs, "malformed",
                             Append(lines, LineName("err_missing_field", plugin_name)),
                             net, "none")
                    ELSE IF plugin_file.t # "str" THEN raise("TypeError")
                    ELSE InstallDownload(plugin_name, plugin_file.s, expected_hash,
                                         e, ds, fs)

\* ppm_install(tab, plugin_name); plugin_name is None when the token is missing
Install(plugin_name, man, e, ds, fs) ==
    LET m == FetchManifest(man, e)
        lines == <<Line("fetching")>>
    IN  IF Falsy(plugin_name)
        THEN InstallReturn(ds, fs, "usage", <<Line("usage_install")>>, <<>>, "none")
        ELSE IF m.r = "net"
        THEN InstallReturn(ds, fs, "manifest_net",
                 Append(lines, LineExc("err_fetch", m.exc)), ManifestRequest, "none")
        ELSE IF m.r = "raise"
        THEN InstallReturn(ds, fs, "raised", lines, ManifestRequest, m.exc)
        ELSE IF m.r = "json"
        THEN InstallReturn(ds, fs, "manifest_parse",
                 Append(lines, Line("err_parse")), ManifestRequest, "none")
        ELSE InstallLookup(plugin_name, m.doc, e, ds, fs)

(***************************************************************************)
(* ppm_uninstall.                                                          *)
(***************************************************************************)
UninstallReturn(ds, fs, outcome, lines, net, exc) ==
    [dirs |-> ds, files |-> fs, out |-> lines, net |-> net, outcome |-> outcome,
     exc |-> exc, target |-> None, at |-> {}]

\* lines 154 and 160: the guessed file name
GuessedFileName(plugin_name) == plugin_name \o S_py

\* line 162: the file name the manifest's record gives
ManifestFileName(plugin_file) == Basename(plugin_file)

\* lines 164-175: remove the file when the path exists
UninstallRemove(plugin_name, plugin_file_name, lines, e, ds, fs) ==
    LET net == ManifestRequest
        plugin_path == Join(PluginsDir, plugin_file_name)
        w == Walk(plugin_path, ds, fs)
        done(fs2, outcome, more) ==
            [dirs |-> ds, files |-> fs2, out |-> lines \o more, net |-> net,
             outcome |-> outcome, exc |-> "none", target |-> plugin_file_name,
             at |-> IF w.err THEN {} ELSE {w.at}]
    IN  IF ~PathExists(plugin_path, ds, fs)
        THEN done(fs, "not_installed", <<LineName("err_not_installed", plugin_name)>>)
        ELSE IF w.kind = "dir" \/ e.fault = "remove"
        THEN done(fs, "remove_error", <<LineExc("err_remove", "OSError")>>)
        ELSE done(Without(fs, w.at), "uninstalled",
                  <<LineName("uninstalled", plugin_name), Line("restart")>>)

\* ppm_uninstall(tab, plugin_name)
Uninstall(plugin_name, man, e, ds, fs) ==
    LET m == FetchManifest(man, e)
        net == ManifestRequest
        raise(exc) == UninstallReturn(ds, fs, "raised", <<>>, net, exc)
    IN  IF Falsy(plugin_name)
        THEN UninstallReturn(ds, fs, "usage", <<Line("usage_uninstall")>>, <<>>, "none")
        ELSE IF m.r \in {"net", "json"}
        THEN UninstallRemove(plugin_name, GuessedFileName(plugin_name), <<>>, e, ds, fs)
        ELSE IF m.r = "raise" THEN raise(m.exc)
        ELSE IF ~HasGet(m.doc) THEN raise("AttributeError")
        ELSE LET plugins == Get(m.doc, K_plugins, EmptyObj)
        IN  IF ~HasGet(plugins) THEN raise("AttributeError")
            ELSE LET plugin_info == Get(plugins, plugin_name, JNull)
            IN  IF ~Truthy(plugin_info)
                THEN UninstallRemove(plugin_name, GuessedFileName(plugin_name),
                         <<LineName("warn_not_in_manifest", plugin_name)>>, e, ds, fs)
                ELSE IF ~HasGet(plugin_info) THEN raise("AttributeError")
                ELSE LET plugin_file == Get(plugin_info, K_file, JNull)
                IN  IF plugin_file.t # "str" THEN raise("TypeError")
                    ELSE UninstallRemove(plugin_name, ManifestFileName(plugin_file.s),
                                         <<>>, e, ds, fs)

(***************************************************************************)
(* ppm_list and ppm_search.  os.listdir returns the names in an arbitrary  *)
(* order, and a dict is walked in the order of the document's keys, which  *)
(* a function does not record: a call returns the set of results it may    *)
(* have, one for each order.                                               *)
(***************************************************************************)
\* the sequences that list the elements of S once each
Orders(S) ==
    {q \in [1..Cardinality(S) -> S] : \A i, j \in 1..Cardinality(S) : q[i] = q[j] => i = j}

Reply(lines, net, exc) == [out |-> lines, net |-> net, exc |-> exc]

\* line 114 and line 222: a plugin file is one whose name ends with ".py"
IsPluginFile(fname) == EndsWith(fname, S_py)

\* line 115 and line 222: a plugin's name is its file name without extension
PluginNameOf(fname) == SplitextRoot(fname)

\* [PluginNameOf(fname) for fname in listing if IsPluginFile(fname)]
RECURSIVE InstalledNames(_)
InstalledNames(listing) ==
    IF listing = <<>> THEN <<>>
    ELSE (IF IsPluginFile(Head(listing)) THEN <<PluginNameOf(Head(listing))>> ELSE <<>>)
         \o InstalledNames(Tail(listing))

\* lines 110-112: what list -i says when there is no store directory
NoStoreLines == <<Line("no_plugins_installed")>>

\* lines 113-115: what list -i says for a listing of the store directory
ListingLines(listing) ==
    LET names == InstalledNames(listing)
    IN  [i \in 1..Len(names) |-> LineName("entry", names[i])]

\* lines 107-115: ppm_list(tab, True)
ListInstalled(ds, fs) ==
    IF ~PathExists(PluginsDir, ds, fs)
    THEN {Reply(<<Line("installed_header")>> \o NoStoreLines, <<>>, "none")}
    ELSE {Reply(<<Line("installed_header")>> \o ListingLines(listing), <<>>, "none") :
             listing \in Orders(ListDir(ds, fs))}

S_no_description == <<"N", "o", " ", "d", "e", "s", "c">>
S_na == <<"N", "/", "A">>

\* lines 135-136: one line for each record, until a record has no .get
RECURSIVE ListEntries(_, _, _)
ListEntries(order, m, acc) ==
    IF order = <<>> THEN Reply(acc, ManifestRequest, "none")
    ELSE LET info == m[Head(order)]
         IN  IF ~HasGet(info) THEN Reply(acc, ManifestRequest, "AttributeError")
             ELSE ListEntries(Tail(order), m,
                      Append(acc, [k |-> "available", name |-> Head(order),
                                   desc |-> Get(info, K_description,
                                                JStr(S_no_description))]))

\* lines 117-136: ppm_list(tab, False)
ListAvailable(man, e) ==
    LET m == FetchManifest(man, e)
        net == ManifestRequest
        lines == <<Line("available_header")>>
    IN  IF m.r = "net" THEN {Reply(Append(lines, LineExc("err_fetch", m.exc)), net, "none")}
        ELSE IF m.r = "raise" THEN {Reply(lines, net, m.exc)}
        ELSE IF m.r = "json" THEN {Reply(Append(lines, Line("err_parse")), net, "none")}
        ELSE IF ~HasGet(m.doc) THEN {Reply(lines, net, "AttributeError")}
        ELSE LET plugins == Get(m.doc, K_plugins, EmptyObj)
        IN  IF ~Truthy(plugins)
            THEN {Reply(Append(lines, Line("no_plugins_found")), net, "none")}
            ELSE IF plugins.t # "obj" THEN {Reply(lines, net, "AttributeError")}
            ELSE {ListEntries(order, plugins.m, lines) : order \in Orders(DOMAIN plugins.m)}

\* lines 198-200: the records whose name or description holds the keyword
RECURSIVE SearchMatches(_, _, _, _)
SearchMatches(order, m, keyword, acc) ==
    IF order = <<>> THEN [matches |-> acc, exc |-> "none"]
    ELSE LET name == Head(order)
             info == m[name]
             description == IF HasGet(info) THEN Get(info, K_description, JStr(<<>>))
                            ELSE JNull
         IN  IF Contains(Lower(name), Lower(keyword))
             THEN SearchMatches(Tail(order), m, keyword, Append(acc, name))
             ELSE IF ~HasGet(info) \/ description.t # "str"
             THEN [matches |-> acc, exc |-> "AttributeError"]
             ELSE SearchMatches(Tail(order), m, keyword,
                      IF Contains(Lower(description.s), Lower(keyword))
                      THEN Append(acc, name) ELSE acc)

\* lines 206-207: one line for each match, until a record has no .get
RECURSIVE SearchLines(_, _, _)
SearchLines(matches, m, acc) ==
    IF matches = <<>> THEN Reply(acc, ManifestRequest, "none")
    ELSE LET info == m[Head(matches)]
         IN  IF ~HasGet(info) THEN Reply(acc, ManifestRequest, "AttributeError")
             ELSE SearchLines(Tail(matches), m,
                      Append(acc, [k |-> "match", name |-> Head(matches),
                                   version |-> Get(info, K_version, JStr(S_na)),
                                   desc |-> Get(info, K_description,
                                                JStr(S_no_description))]))

\* lines 196-207, for one order of the records
SearchIn(order, m, keyword, lines) ==
    LET found == SearchMatches(order, m, keyword, <<>>)
    IN  IF found.exc # "none" THEN Reply(lines, ManifestRequest, found.exc)
        ELSE IF found.matches = <<>>
        THEN Reply(Append(lines, Line("no_matches")), ManifestRequest, "none")
        ELSE SearchLines(found.matches, m, lines)

\* ppm_search(tab, keyword)
Search(keyword, man, e) ==
    LET m == FetchManifest(man, e)
        net == ManifestRequest
        lines == <<LineName("searching", keyword)>>
    IN  IF Falsy(keyword) THEN {Reply(<<Line("usage_search")>>, <<>>, "none")}
        ELSE IF m.r = "net"
        THEN {Reply(Append(lines, LineExc("err_fetch", m.exc)), net, "none")}
        ELSE IF m.r = "raise" THEN {Reply(lines, net, m.exc)}
        ELSE IF m.r = "json" THEN {Reply(Append(lines, Line("err_parse")), net, "none")}
        ELSE IF ~HasGet(m.doc) THEN {Reply(lines, net, "AttributeError")}
        ELSE LET plugins == Get(m.doc, K_plugins, EmptyObj)
        IN  IF plugins.t # "obj" THEN {Reply(lines, net, "AttributeError")}
            ELSE {SearchIn(order, plugins.m, keyword, lines) :
                     order \in Orders(DOMAIN plugins.m)}

\* ppm_help(tab)
HelpLines == <<Line("help")>>

(***************************************************************************)
(* ppm_command: the dispatcher.                                            *)
(***************************************************************************)
W_help == <<"h", "e", "l", "p">>
W_install == <<"i", "n", "s", "t", "a", "l", "l">>
W_uninstall == <<"u", "n", "i", "n", "s", "t", "a", "l", "l">>
W_list == <<"l", "i", "s", "t">>
W_search == <<"s", "e", "a", "r", "c", "h">>
W_update == <<"u", "p", "d", "a", "t", "e">>
W_bogus == <<"r", "m">>

\* args.split(): the maximal runs of characters other than white space
RECURSIVE SplitWs(_)
SplitWs(s) ==
    IF s = <<>> THEN <<>>
    ELSE IF Head(s) = " " THEN SplitWs(Tail(s))
    ELSE LET spaces == {i \in 1..Len(s) : s[i] = " "}
             stop == IF spaces = {} THEN Len(s) + 1
                     ELSE CHOOSE i \in spaces : \A j \in spaces : i <= j
         IN  <<SubSeq(s, 1, stop - 1)>> \o SplitWs(SubSeq(s, stop, Len(s)))

\* lines 243-263: the subcommand and its one argument
Subcommand(args) ==
    IF SplitWs(args) = <<>> THEN None ELSE Lower(SplitWs(args)[1])

SecondToken(args) ==
    IF Len(SplitWs(args)) > 1 THEN SplitWs(args)[2] ELSE None

\* line 256: the literal -i flag
InstalledOnly(args) == Len(SplitWs(args)) > 1 /\ SplitWs(args)[2] = S_i

(***************************************************************************)
(* The inputs the model draws.                                             *)
(***************************************************************************)
Sp(a, b) == a \o <<" ">> \o b

Names == {S_a, S_b, S_all}

\* the command lines: every subcommand without and with an argument, one
\* in upper case with more white space, and an unknown one
ArgLines ==
    {<<>>, W_help, W_install, W_uninstall, W_update, W_search, W_list, W_bogus}
    \cup {Sp(w, n) : w \in {W_install, W_uninstall, W_update}, n \in Names}
    \cup {Sp(W_list, S_i), Sp(W_search, S_a),
          <<" ">> \o Sp(Upper(W_list), <<" ">> \o S_i)}

\* the command lines of one subcommand
LinesOf(subcommands) == {args \in ArgLines : Subcommand(args) \in subcommands}

KnownSubcommands == {W_help, W_install, W_uninstall, W_list, W_search, W_update}

HelpLinesIn == LinesOf({None, W_help})
UnknownLinesIn == {args \in ArgLines : Subcommand(args) \notin KnownSubcommands \cup {None}}
InstallLinesIn == LinesOf({W_install})
UninstallLinesIn == LinesOf({W_uninstall})
ListLinesIn == LinesOf({W_list})
SearchLinesIn == LinesOf({W_search})
UpdateLinesIn == LinesOf({W_update})

Env(fault, content, cut) == [fault |-> fault, content |-> content, cut |-> cut]

FetchEnvs == {Env(f, <<>>, 0) : f \in {"none", "manifest_URLError", "manifest_HTTPError"}}

UninstallEnvs == FetchEnvs \cup {Env("remove", <<>>, 0)}

InstallEnvs ==
    FetchEnvs
    \cup {Env(f, <<>>, 0) : f \in {"download_URLError", "download_HTTPError"}}
    \cup {Env(f, c, 0) : f \in {"none", "makedirs", "open"}, c \in Contents}
    \cup {Env("write", c, k) : c \in Contents \ {<<>>}, k \in 0..(MaxLen - 1)}

\* the digests a manifest may declare
S_good == HexDigest(<<1>>)
S_other == HexDigest(<<>>)

S_a_py == S_a \o S_py
S_b_py == S_b \o S_py
S_up == <<".", ".">>
S_nested_b_py == S_up \o <<"/">> \o S_up \o <<"/">> \o S_b_py

Field(key, v) == [k \in {key} |-> v]

\* a record {"file": file, "sha256": sha256}
Record(file, sha256) == JObj(Field(K_file, JStr(file)) @@ Field(K_sha256, JStr(sha256)))

\* a manifest {"plugins": m}
ManifestOf(m) == JsonBody(JObj(Field(K_plugins, JObj(m))))

\* the manifest response bodies
Manifests ==
    {ManifestOf(Field(S_a, Record(S_a_py, S_good))
                @@ Field(S_b, Record(S_nested_b_py, S_good))),
     ManifestOf(Field(S_a, Record(S_a_py, Upper(S_good)))),
     ManifestOf(Field(S_a, Record(S_nested_b_py, S_other))),
     ManifestOf(Field(S_a, Record(S_up, S_good))),
     ManifestOf(Field(S_b, Record(S_b \o <<"/">>, S_good))),
     ManifestOf(Field(S_b, Record(S_b, S_good))),
     ManifestOf(Field(S_all, Record(S_a_py, S_good))),
     ManifestOf(Field(S_b, JObj(Field(K_sha256, JStr(S_good))
                                @@ Field(K_description, JStr(S_a))))),
     NotUtf8, NotJson, JsonBody(JNull)}

(***************************************************************************)
(* The state.                                                              *)
(*   dirs, files  the file system                                          *)
(*   manifest     the body the repository serves at the manifest URL       *)
(*   pc           "idle" before ppm_command is called, "bulk" inside the   *)
(*                loop of update --all (lines 227-229), "done" when        *)
(*                ppm_command has returned or raised                       *)
(* and, of the one invocation of ppm_command under way or just over:       *)
(*   line         its command line                                         *)
(*   queue        the installed_plugins the loop has not reached yet       *)
(*   out          the lines it has added to the tab                        *)
(*   net          the network requests it has made                         *)
(*   exc          the exception that escaped it, or "none"                 *)
(*   res          its last ppm_install or ppm_uninstall call: the name,    *)
(*                the environment and the result                           *)
(***************************************************************************)
VARIABLES dirs, files, manifest, line, pc, queue, out, net, exc, res

vars == <<dirs, files, manifest, line, pc, queue, out, net, exc, res>>

NoCall == [op |-> "none"]

InstallCall(plugin_name, e, r) ==
    [op |-> "install", name |-> plugin_name, e |-> e, outcome |-> r.outcome,
     dest |-> r.dest, at |-> r.at, expected |-> r.expected, actual |-> r.actual]

UninstallCall(plugin_name, e, r) ==
    [op |-> "uninstall", name |-> plugin_name, e |-> e, outcome |-> r.outcome,
     target |-> r.target, at |-> r.at]

NoFile == [p \in {} |-> <<>>]

Init ==
    /\ dirs = {<<>>, <<<<"h">>>>}
    /\ files = NoFile
    /\ manifest \in Manifests
    /\ line = <<>>
    /\ pc = "idle"
    /\ queue = <<>>
    /\ out = <<>>
    /\ net = <<>>
    /\ exc = "none"
    /\ res = NoCall

\* a handler that touches neither the disk nor the loop of update --all
Answer(args, reply) ==
    /\ line' = args
    /\ out' = reply.out
    /\ net' = reply.net
    /\ exc' = reply.exc
    /\ queue' = <<>>
    /\ pc' = "done"
    /\ UNCHANGED <<dirs, files, manifest, res>>

\* lines 239-247: no arguments, or help
CmdHelp ==
    \E args \in HelpLinesIn :
        /\ pc = "idle"
        /\ Answer(args, Reply(HelpLines, <<>>, "none"))

\* lines 264-266: an unknown subcommand
CmdUnknown ==
    \E args \in UnknownLinesIn :
        /\ pc = "idle"
        /\ Answer(args, Reply(<<LineName("unknown", Subcommand(args))>> \o HelpLines,
                              <<>>, "none"))

\* lines 249-251: install
CmdInstall ==
    \E args \in InstallLinesIn, e \in InstallEnvs :
        /\ pc = "idle"
        /\ LET r == Install(SecondToken(args), manifest, e, dirs, files)
           IN  /\ dirs' = r.dirs
               /\ files' = r.files
               /\ out' = r.out
               /\ net' = r.net
               /\ exc' = r.exc
               /\ res' = InstallCall(SecondToken(args), e, r)
        /\ line' = args
        /\ queue' = <<>>
        /\ pc' = "done"
        /\ UNCHANGED manifest

\* lines 252-254: uninstall
CmdUninstall ==
    \E args \in UninstallLinesIn, e \in UninstallEnvs :
        /\ pc = "idle"
        /\ LET r == Uninstall(SecondToken(args), manifest, e, dirs, files)
           IN  /\ dirs' = r.dirs
               /\ files' = r.files
               /\ out' = r.out
               /\ net' = r.net
               /\ exc' = r.exc
               /\ res' = UninstallCall(SecondToken(args), e, r)
        /\ line' = args
        /\ queue' = <<>>
        /\ pc' = "done"
        /\ UNCHANGED manifest

\* lines 255-257: list, list -i
CmdList ==
    \E args \in ListLinesIn, e \in FetchEnvs :
        /\ pc = "idle"
        /\ \E reply \in (IF InstalledOnly(args) THEN ListInstalled(dirs, files)
                         ELSE ListAvailable(manifest, e)) :
               Answer(args, reply)

\* lines 258-260: search
CmdSearch ==
    \E args \in SearchLinesIn, e \in FetchEnvs :
        /\ pc = "idle"
        /\ \E reply \in Search(SecondToken(args), manifest, e) :
               Answer(args, reply)

\* lines 215-232: the names update runs ppm_install for, in turn; one
\* sequence for each order os.listdir may return
UpdateTargets(plugin_name, ds, fs) ==
    IF plugin_name # S_all THEN {<<plugin_name>>}
    ELSE IF ~PathExists(PluginsDir, ds, fs) THEN {<<>>}
    ELSE {InstalledNames(listing) : listing \in Orders(ListDir(ds, fs))}

\* lines 211-213: update without a name
CmdUpdateUsage ==
    \E args \in UpdateLinesIn :
        /\ pc = "idle"
        /\ Falsy(SecondToken(args))
        /\ Answer(args, Reply(<<Line("usage_update")>>, <<>>, "none"))

\* lines 230-232: update <name>
CmdUpdateOne ==
    \E args \in UpdateLinesIn, e \in InstallEnvs :
        /\ pc = "idle"
        /\ ~Falsy(SecondToken(args))
        /\ SecondToken(args) # S_all
        /\ \E targets \in UpdateTargets(SecondToken(args), dirs, files) :
               LET r == Install(Head(targets), manifest, e, dirs, files)
               IN  /\ dirs' = r.dirs
                   /\ files' = r.files
                   /\ out' = <<LineName("updating", SecondToken(args))>> \o r.out
                   /\ net' = r.net
                   /\ exc' = r.exc
                   /\ res' = InstallCall(Head(targets), e, r)
        /\ line' = args
        /\ queue' = <<>>
        /\ pc' = "done"
        /\ UNCHANGED manifest

\* lines 215-225: update --all up to its loop
CmdUpdateAll ==
    \E args \in UpdateLinesIn :
        /\ pc = "idle"
        /\ SecondToken(args) = S_all
        /\ line' = args
        /\ net' = <<>>
        /\ exc' = "none"
        /\ \E installed_plugins \in UpdateTargets(SecondToken(args), dirs, files) :
               /\ queue' = installed_plugins
               /\ pc' = IF installed_plugins = <<>> THEN "done" ELSE "bulk"
               /\ out' = <<Line("updating_all")>> \o
                         (IF ~PathExists(PluginsDir, dirs, files)
                          THEN <<Line("no_plugins_installed")>>
                          ELSE IF installed_plugins = <<>>
                          THEN <<Line("no_plugins_to_update")>>
                          ELSE <<>>)
        /\ UNCHANGED <<dirs, files, manifest, res>>

\* lines 227-229: one turn of the loop; an exception leaves the loop and
\* the command with the rest of the queue not run
UpdateAllStep ==
    \E e \in InstallEnvs :
        /\ pc = "bulk"
        /\ LET p_name == Head(queue)
               r == Install(p_name, manifest, e, dirs, files)
           IN  /\ dirs' = r.dirs
               /\ files' = r.files
               /\ out' = out \o <<LineName("updating_one", p_name)>> \o r.out
               /\ net' = net \o r.net
               /\ exc' = r.exc
               /\ res' = InstallCall(p_name, e, r)
               /\ pc' = IF r.exc # "none" \/ Len(queue) = 1 THEN "done" ELSE "bulk"
        /\ queue' = Tail(queue)
        /\ UNCHANGED <<manifest, line>>

\* control is back in the host, which may call ppm_command again
Return ==
    /\ pc = "done"
    /\ pc' = "idle"
    /\ line' = <<>>
    /\ queue' = <<>>
    /\ out' = <<>>
    /\ net' = <<>>
    /\ exc' = "none"
    /\ res' = NoCall
    /\ UNCHANGED <<dirs, files, manifest>>

\* between two commands the repository publishes another manifest
RepoChange ==
    /\ pc = "idle"
    /\ manifest' \in Manifests \ {manifest}
    /\ UNCHANGED <<dirs, files, line, pc, queue, out, net, exc, res>>

Next ==
    \/ CmdHelp
    \/ CmdUnknown
    \/ CmdInstall
    \/ CmdUninstall
    \/ CmdList
    \/ CmdSearch
    \/ CmdUpdateUsage
    \/ CmdUpdateOne
    \/ CmdUpdateAll
    \/ UpdateAllStep
    \/ Return
    \/ RepoChange

Spec == Init /\ [][Next]_vars

(***************************************************************************)
(* What the properties below read off a state.                             *)
(***************************************************************************)
\* the record a manifest body declares for a name, JNull when it has none
RecordIn(man, name) ==
    IF /\ man.body = "json"
       /\ man.doc.t = "obj"
       /\ K_plugins \in DOMAIN man.doc.m
       /\ man.doc.m[K_plugins].t = "obj"
       /\ name \in DOMAIN man.doc.m[K_plugins].m
    THEN man.doc.m[K_plugins].m[name]
    ELSE JNull

DeclaredField(man, name, key) ==
    LET record == RecordIn(man, name)
    IN  IF record.t = "obj" /\ key \in DOMAIN record.m THEN record.m[key] ELSE JNull

DeclaredDigest(man, name) == DeclaredField(man, name, K_sha256)
DeclaredFile(man, name) == DeclaredField(man, name, K_file)

ManifestFaults == {"manifest_URLError", "manifest_HTTPError"}
NetFaults == ManifestFaults \cup {"download_URLError", "download_HTTPError"}

\* a call of ppm_install(name) in environment e gets a payload to verify
Downloads(man, name, e) ==
    /\ e.fault \notin NetFaults
    /\ DeclaredFile(man, name).t = "str"
    /\ DeclaredFile(man, name).s # <<>>
    /\ Truthy(DeclaredDigest(man, name))

\* this step is one call of ppm_install, whose record is res'
InstallStep == pc \in {"idle", "bulk"} /\ res'.op = "install"

\* this step is one call of ppm_uninstall with a name
UninstallStep == pc = "idle" /\ res'.op = "uninstall" /\ ~Falsy(res'.name)

\* the lines this step added to the tab
Added == SubSeq(out', Len(out) + 1, Len(out'))

Says(lines, l) == \E i \in 1..Len(lines) : lines[i] = l

IsUpdateAll(args) == Subcommand(args) = W_update /\ SecondToken(args) = S_all

\* the store's plugin files
PluginFiles == {f \in ListDir(dirs, files) : EndsWith(f, S_py)}

(***************************************************************************)
(* C1.  No unverified writes: a call of ppm_install changes a file only    *)
(* when the SHA-256 digest of the bytes it downloaded equals the digest    *)
(* the manifest it fetched declares for the record; when the two differ,   *)
(* the call reports the mismatch with the expected and the actual digest   *)
(* and leaves every file as it was.                                        *)
(***************************************************************************)
C1_NoUnverifiedWrites ==
    [][InstallStep =>
         LET declared == DeclaredDigest(manifest, res'.name)
             digest == JStr(HexDigest(res'.e.content))
             downloads == Downloads(manifest, res'.name, res'.e)
         IN  /\ files' # files => downloads /\ digest = declared
             /\ downloads /\ digest # declared =>
                    /\ files' = files
                    /\ Says(Added, Line("hash_mismatch"))
                    /\ Says(Added, LineVal("expected", declared))
                    /\ Says(Added, LineVal("actual", digest))]_vars

\* a mismatch was reported while the plugin's file was in the store
C1_Witness ==
    /\ pc = "done"
    /\ res.op = "install"
    /\ res.outcome = "hash_mismatch"
    /\ DeclaredFile(manifest, res.name).t = "str"
    /\ Append(StorePath, Basename(DeclaredFile(manifest, res.name).s)) \in DOMAIN files

(***************************************************************************)
(* C2.  Integrity gate: the verification accepts a payload exactly when    *)
(* its hex SHA-256 digest equals the manifest's digest string compared     *)
(* without regard to case.                                                 *)
(***************************************************************************)
C2_IntegrityGate ==
    /\ res.op = "install"
    /\ Downloads(manifest, res.name, res.e)
    /\ DeclaredDigest(manifest, res.name).t = "str"
    => (res.outcome # "hash_mismatch"
        <=> Lower(DeclaredDigest(manifest, res.name).s)
              = Lower(HexDigest(res.e.content)))

(***************************************************************************)
(* C3.  Path safety: the path ppm_install opens for writing, and the path  *)
(* ppm_uninstall removes, is the store directory joined with the basename  *)
(* of the record's file and leads to a location inside the store; no file  *)
(* exists outside the store.                                               *)
(***************************************************************************)
C3_PathSafety ==
    /\ \A p \in DOMAIN files : InsideStore(p)
    /\ res.op = "install" /\ res.dest # None =>
           /\ res.dest = Join(PluginsDir, Basename(DeclaredFile(manifest, res.name).s))
           /\ \A loc \in res.at : InsideStore(loc)
    /\ res.op = "uninstall" /\ res.target # None =>
           \A loc \in res.at : InsideStore(loc)

(***************************************************************************)
(* C4.  Uninstall precision: ppm_uninstall(name) settles on one file name, *)
(* the basename of the manifest record's file when the manifest is         *)
(* reachable and holds name, and name + ".py" otherwise; then it removes   *)
(* that one file and no other, or, when the store has no such path, says   *)
(* that the plugin is not installed and leaves every file as it was.       *)
(***************************************************************************)
C4_ClaimedFileName(man, name, e) ==
    IF e.fault \notin ManifestFaults /\ DeclaredFile(man, name).t = "str"
    THEN Basename(DeclaredFile(man, name).s)
    ELSE name \o S_py

C4_UninstallPrecision ==
    [][UninstallStep =>
         LET name == res'.name
             path == Join(PluginsDir, C4_ClaimedFileName(manifest, name, res'.e))
             loc == Walk(path, dirs, files)
         IN  IF PathExists(path, dirs, files)
             THEN loc.at \in DOMAIN files /\ files' = Without(files, loc.at)
             ELSE /\ files' = files
                  /\ Says(out', LineName("err_not_installed", name))]_vars

(***************************************************************************)
(* C5.  Idempotent install: once ppm_install(name) has succeeded, a second *)
(* run for the same name, as install <name> or as update <name>, with the  *)
(* manifest and the remote bytes unchanged and no fault, succeeds for      *)
(* every name it runs and leaves the directories and files as they are.    *)
(* As stated, for every name; as amended, for every name but "--all".      *)
(***************************************************************************)
\* lines 227-229 with one environment for every turn: the loop's turns,
\* cut short by an exception
RECURSIVE RunInstalls(_, _, _, _, _)
RunInstalls(targets, man, e, ds, fs) ==
    IF targets = <<>> THEN [dirs |-> ds, files |-> fs, outcomes |-> <<>>]
    ELSE LET r == Install(Head(targets), man, e, ds, fs)
         IN  IF r.exc # "none"
             THEN [dirs |-> r.dirs, files |-> r.files, outcomes |-> <<r.outcome>>]
             ELSE LET rest == RunInstalls(Tail(targets), man, e, r.dirs, r.files)
                  IN  [rest EXCEPT !.outcomes = <<r.outcome>> \o @]

\* the names the second run installs, for each of its two forms
SecondRuns(name) == {<<name>>} \cup UpdateTargets(name, dirs, files)

SecondRunChangesNothing(name) ==
    \A targets \in SecondRuns(name) :
        LET again == RunInstalls(targets, manifest, Env("none", res.e.content, 0),
                                 dirs, files)
        IN  /\ again.outcomes = <<"installed">>
            /\ again.files = files
            /\ again.dirs = dirs

FirstInstallSucceeded == res.op = "install" /\ res.outcome = "installed"

C6_NoExceptionEscapes == exc = "none"

(***************************************************************************)
(* C7.  Bulk update: update --all runs install once, in turn, for the name *)
(* of each ".py" file of the store; a failed re-install does not stop the  *)
(* ones after it; a re-install that cannot reach the manifest fails with   *)
(* the manifest network error and changes no file or directory.            *)
(***************************************************************************)
C7_BulkUpdate ==
    [][/\ pc = "idle" /\ pc' = "bulk" =>
              /\ Len(queue') = Cardinality(PluginFiles)
              /\ {queue'[i] : i \in 1..Len(queue')}
                     = {SplitextRoot(f) : f \in PluginFiles}
       /\ pc = "bulk" =>
              /\ res'.op = "install" /\ res'.name = Head(queue)
              /\ Len(queue) > 1 => pc' = "bulk" /\ queue' = Tail(queue)
              /\ res'.e.fault \in ManifestFaults =>
                     /\ res'.outcome = "manifest_net"
                     /\ files' = files
                     /\ dirs' = dirs]_vars

(***************************************************************************)
(* C8.  Network budget: as stated, every invocation of ppm_command makes   *)
(* at most one manifest fetch and at most one download, the fetch first.   *)
(* As amended, that holds of every invocation but update --all, which      *)
(* makes one manifest fetch and at most one download, the fetch first, for *)
(* each plugin it re-installs.                                             *)
(***************************************************************************)
C8_OneFetchOneDownload == {<<>>, <<"manifest">>, <<"manifest", "download">>}

C8_Reinstalls == Cardinality({i \in 1..Len(out) : out[i].k = "updating_one"})

C8_AsStated == net \in C8_OneFetchOneDownload

C8_NetworkBudget ==
    IF IsUpdateAll(line)
    THEN /\ Cardinality({i \in 1..Len(net) : net[i] = "manifest"}) = C8_Reinstalls
         /\ \A i \in 1..Len(net) :
                net[i] = "download" => i > 1 /\ net[i - 1] = "manifest"
    ELSE net \in C8_OneFetchOneDownload

\* update --all has re-installed two plugins, fetching and downloading twice
C8_Witness ==
    /\ pc = "done"
    /\ IsUpdateAll(line)
    /\ net = <<"manifest", "download", "manifest", "download">>

(***************************************************************************)
(* C9.  Atomic install: a call of ppm_install that reports success leaves  *)
(* the files as they were but for store/basename(file), which holds the    *)
(* verified bytes; any other call leaves every file as it was.             *)
(***************************************************************************)
C9_AtomicInstall ==
    [][InstallStep =>
         IF res'.outcome = "installed"
         THEN files' = With(files,
                            Append(StorePath,
                                   Basename(DeclaredFile(manifest, res'.name).s)),
                            res'.e.content)
         ELSE files' = files]_vars

(***************************************************************************)
(* C10.  Listing installed plugins: list -i makes no network request and   *)
(* lists one entry for each plugin file, named by the file name without    *)
(* its extension; when the store holds no plugin file, or does not exist,  *)
(* it says that no plugins are installed and lists no entry.               *)
(***************************************************************************)
C10_Entries == {i \in 1..Len(out) : out[i].k = "entry"}

C10_ListInstalled ==
    pc = "done" /\ Subcommand(line) = W_list /\ InstalledOnly(line) =>
        /\ net = <<>>
        /\ Cardinality(C10_Entries) = Cardinality(PluginFiles)
        /\ {out[i].name : i \in C10_Entries} = {SplitextRoot(f) : f \in PluginFiles}
        /\ PluginFiles = {} => Says(out, Line("no_plugins_installed"))

=============================================================================
